---- MODULE Spec2Model ----
(***************************************************************************)
(* CHIP-8 interpreter (liliilli/chipmunk): the register/execution engine   *)
(* (engine/register.rs), the memory subsystem (engine/memory.rs), the      *)
(* decoder (engine/isa.rs), the keypad (engine/keypad.rs) and the frame    *)
(* loop of main.rs.                                                        *)
(***************************************************************************)
EXTENDS Integers, Sequences, FiniteSets, TLC

VARIABLES
    registers,        \* main.rs:99   Registers { g, sl, vf, pc, spst, dt, st }
    memory,           \* main.rs:98   Memory { memory: Vec<u8> } (file image + bytes written since)
    screen,           \* main.rs:100  Screen: the set of lit pixels <<x, y>>
    keypad,           \* main.rs:101  Keypad { keypad: [bool; 16] }
    machine_state,    \* main.rs:102  MachineState::Normal | WaitKeyPress{ r }
    status,           \* "running" | "halted" (break at main.rs:184) | "exited" | "panicked"
    overflow_checks,  \* build profile: TRUE = arithmetic overflow panics, FALSE = it wraps
    last,             \* the instruction handed to update_registers most recently
    prev,             \* the registers as they were when `last` was handed over
    dumped,           \* the most recent MemDump side effect dispatched to memory
    call,             \* the most recent direct call of a Memory / isa function, with its result
    frame,            \* what the most recent iteration of the frame loop did, in order
    steps             \* number of instructions / frames driven so far

vars == <<registers, memory, screen, keypad, machine_state, status,
          overflow_checks, last, prev, dumped, call, frame, steps>>

(***************************************************************************)
(* Program constants.                                                      *)
(***************************************************************************)
GENERAL_REGISTERS_CNT == 16
INIT_PROGRAM_COUNTER_VAL == 512
MEMORY_SIZE == 4096
PROGRAM_OFFSET == 512
GLYPH_BYTES == 5
FONT_ADDR_FACTOR == 10

(***************************************************************************)
(* Bounds of the exploration.                                              *)
(***************************************************************************)
MaxSteps == 3
MaxEngineSteps == 2
MaxBulkSteps == 4
MaxFrames == 4
MaxRomWords == 3
ByteEdge == 1
MaxStack == 2
MaxMemorySteps == 2
BlobExcess == 1
MaxTimer == 2

Byte == 0 .. 255
RegIndex == 0 .. (GENERAL_REGISTERS_CNT - 1)

\* Byte values the inputs are drawn from: both ends of the range and the sign bit.
ByteVals == (0 .. ByteEdge) \cup {128} \cup ((256 - ByteEdge) .. 255)
\* Register indices used as instruction operands: two ordinary ones and VF.
RegOperands == {0, 1, 15}

(***************************************************************************)
(* u8 / u16 arithmetic as Rust computes it.                                *)
(***************************************************************************)
\* u8::overflowing_add: (wrapped sum, overflowed?)
overflowing_add(a, b) ==
    IF a + b > 255 THEN <<a + b - 256, TRUE>> ELSE <<a + b, FALSE>>

\* u8::overflowing_sub: (wrapped difference, overflowed?)
overflowing_sub(a, b) ==
    IF a < b THEN <<a - b + 256, TRUE>> ELSE <<a - b, FALSE>>

RECURSIVE Bitwise(_, _, _, _)
\* bitwise |, &, ^ on the low n bits
Bitwise(op, a, b, n) ==
    IF n = 0 THEN 0
    ELSE LET x == a % 2
             y == b % 2
             bit == CASE op = "or"  -> IF x + y > 0 THEN 1 ELSE 0
                      [] op = "and" -> IF x + y = 2 THEN 1 ELSE 0
                      [] op = "xor" -> IF x + y = 1 THEN 1 ELSE 0
         IN bit + 2 * Bitwise(op, a \div 2, b \div 2, n - 1)

\* `<<= 1` on a u8 discards the bit shifted out; `>>= 1` discards the low bit.
shl1(v) == (v * 2) % 256
shr1(v) == v \div 2

(***************************************************************************)
(* isa::Instruction, as matched by Registers::update_registers.            *)
(***************************************************************************)
Inst(op, r, f, val, addr) == [op |-> op, r |-> r, f |-> f, val |-> val, addr |-> addr]
NoInst == Inst("None", 0, 0, 0, 0)

(***************************************************************************)
(* Registers.                                                              *)
(***************************************************************************)
Registers_new ==
    [ g    |-> [i \in RegIndex |-> 0],
      sl   |-> 0,
      vf   |-> FALSE,
      pc   |-> INIT_PROGRAM_COUNTER_VAL,
      spst |-> << >>,
      dt   |-> 0,
      st   |-> 0 ]

general_register(R, r) == R.g[r]

set_pc(R, new_pc) == [R EXCEPT !.pc = new_pc]

update_vf(R, is_set) == [R EXCEPT !.vf = is_set]

\* The value of one match arm: the registers after it, the pc increment it asks
\* for, the side effect it returns, and whether it panicked.
Arm(R, inc, se) == [regs |-> R, inc |-> inc, se |-> se, panic |-> FALSE]
Panicked(R) == [regs |-> R, inc |-> 0, se |-> [kind |-> "None"], panic |-> TRUE]
None == [kind |-> "None"]

\* `self.pc += inst_count << 1` on a u16: panics on overflow when overflow checks
\* are compiled in, wraps otherwise.
increase_pc(A, checks) ==
    LET sum == A.regs.pc + 2 * A.inc IN
    IF A.panic THEN A
    ELSE IF sum > 65535 /\ checks THEN Panicked(A.regs)
    ELSE [A EXCEPT !.regs.pc = sum % 65536, !.inc = 0]

\* ReturnSubroutine without the assertion: an empty stack is skipped over.
ReturnSubroutine_Unchecked(R, checks) ==
    IF R.spst = << >> THEN increase_pc(Arm(R, 1, None), checks)
    ELSE LET new_pc == R.spst[Len(R.spst)]
             popped == [R EXCEPT !.spst = SubSeq(R.spst, 1, Len(R.spst) - 1)]
         IN increase_pc(Arm(set_pc(popped, new_pc), 1, None), checks)

ReturnSubroutine(R, checks) ==
    IF R.spst = << >> THEN Panicked(R)
    ELSE LET new_pc == R.spst[Len(R.spst)]
             popped == [R EXCEPT !.spst = SubSeq(R.spst, 1, Len(R.spst) - 1)]
         IN increase_pc(Arm(set_pc(popped, new_pc), 1, None), checks)

JmpAddr(R, addr) == Arm(set_pc(R, addr), 0, None)

JmpAddrOffReg0(R, new_pc) == Arm(set_pc(R, general_register(R, 0) + new_pc), 0, None)

\* CallSub pushing the address of the next instruction.
CallSub_PushNext(R, new_pc) ==
    Arm(set_pc([R EXCEPT !.spst = Append(R.spst, R.pc + 2)], new_pc), 0, None)

CallSub(R, new_pc) ==
    Arm(set_pc([R EXCEPT !.spst = Append(R.spst, R.pc)], new_pc), 0, None)

SkipEq(R, r, val) == Arm(R, IF general_register(R, r) = val THEN 2 ELSE 1, None)

SkipNeq(R, r, val) == Arm(R, IF general_register(R, r) # val THEN 2 ELSE 1, None)

SkipRegEq(R, r, f) ==
    Arm(R, IF general_register(R, r) = general_register(R, f) THEN 2 ELSE 1, None)

SkipRegNeq(R, r, f) ==
    Arm(R, IF general_register(R, r) # general_register(R, f) THEN 2 ELSE 1, None)

SetByte(R, r, val) == Arm([R EXCEPT !.g[r] = val], 1, None)

\* `self.g[r] += val` on a u8
AddByte(R, r, val, checks) ==
    LET sum == R.g[r] + val IN
    IF sum > 255 /\ checks THEN Panicked(R)
    ELSE Arm([R EXCEPT !.g[r] = sum % 256], 1, None)

SetRegV(R, r, f) == Arm([R EXCEPT !.g[r] = general_register(R, f)], 1, None)

OrRegV(R, r, f) ==
    Arm([R EXCEPT !.g[r] = Bitwise("or", R.g[r], general_register(R, f), 8)], 1, None)

AndRegV(R, r, f) ==
    Arm([R EXCEPT !.g[r] = Bitwise("and", R.g[r], general_register(R, f), 8)], 1, None)

XorRegV(R, r, f) ==
    Arm([R EXCEPT !.g[r] = Bitwise("xor", R.g[r], general_register(R, f), 8)], 1, None)

\* AddRegV with the carry taken one too late (sum > 256).
AddRegV_LateCarry(R, r, f) ==
    LET sum == general_register(R, r) + general_register(R, f)
    IN Arm(update_vf([R EXCEPT !.g[r] = sum % 256], sum > 256), 1, None)

AddRegV(R, r, f) ==
    LET res == overflowing_add(general_register(R, r), general_register(R, f))
    IN Arm(update_vf([R EXCEPT !.g[r] = res[1]], res[2]), 1, None)

\* SubRegV with the flag set on borrow.
SubRegV_BorrowFlag(R, r, f) ==
    LET res == overflowing_sub(general_register(R, r), general_register(R, f))
    IN Arm(update_vf([R EXCEPT !.g[r] = res[1]], res[2]), 1, None)

SubRegV(R, r, f) ==
    LET res == overflowing_sub(general_register(R, r), general_register(R, f))
    IN Arm(update_vf([R EXCEPT !.g[r] = res[1]], ~res[2]), 1, None)

ShrRegV(R, r) ==
    LET flagged == update_vf(R, general_register(R, r) % 2 = 1)
    IN Arm([flagged EXCEPT !.g[r] = shr1(flagged.g[r])], 1, None)

\* SubNRegV with the operands in the order of SubRegV.
SubNRegV_NotSwapped(R, r, f) ==
    LET res == overflowing_sub(general_register(R, r), general_register(R, f))
    IN Arm(update_vf([R EXCEPT !.g[r] = res[1]], ~res[2]), 1, None)

SubNRegV(R, r, f) ==
    LET res == overflowing_sub(general_register(R, f), general_register(R, r))
    IN Arm(update_vf([R EXCEPT !.g[r] = res[1]], ~res[2]), 1, None)

\* ShlRegV with the flag read after the shift.
ShlRegV_FlagAfter(R, r) ==
    LET shifted == [R EXCEPT !.g[r] = shl1(R.g[r])]
    IN Arm(update_vf(shifted, general_register(shifted, r) >= 128), 1, None)

ShlRegV(R, r) ==
    LET flagged == update_vf(R, general_register(R, r) >= 128)
    IN Arm([flagged EXCEPT !.g[r] = shl1(flagged.g[r])], 1, None)

SetRegL(R, new_l) == Arm([R EXCEPT !.sl = new_l], 1, None)

\* rnd stands for the value of rand::random::<u8>()
RndAnd(R, r, val, rnd) == Arm([R EXCEPT !.g[r] = Bitwise("and", rnd, val, 8)], 1, None)

DispSpr(R, rx, ry, n) ==
    Arm(R, 1, [kind |-> "Draw",
               pos |-> <<general_register(R, rx), general_register(R, ry)>>,
               n |-> n, l |-> R.sl])

SkipKeyPressed(R, r) ==
    Arm(R, 0, [kind |-> "CheckKeyPressed", key |-> general_register(R, r)])

SkipKeyReleased(R, r) ==
    Arm(R, 0, [kind |-> "CheckKeyReleased", key |-> general_register(R, r)])

SetDelayToReg(R, r) == Arm([R EXCEPT !.g[r] = R.dt], 1, None)

WaitKeyPress(R, r) == Arm(R, 1, [kind |-> "WaitKeyPress", r |-> r])

SetDelayFromReg(R, r) == Arm([R EXCEPT !.dt = general_register(R, r)], 1, None)

SetSoundFromReg(R, r) == Arm([R EXCEPT !.st = general_register(R, r)], 1, None)

\* `self.sl += Vx as u16` on a u16
AddRegL(R, r, checks) ==
    LET sum == R.sl + general_register(R, r) IN
    IF sum > 65535 /\ checks THEN Panicked(R)
    ELSE Arm([R EXCEPT !.sl = sum % 65536], 1, None)

SetRegLFontAddrFromReg(R, r) ==
    Arm([R EXCEPT !.sl = general_register(R, r) * FONT_ADDR_FACTOR], 1, None)

MemDump(R, endr) ==
    Arm(R, 1, [kind |-> "MemDump",
               dump_vals |-> [i \in 1 .. (endr + 1) |-> R.g[i - 1]],
               l |-> R.sl])

\* MemRead with the endpoint register left out.
MemRead_Exclusive(R, endr) == Arm(R, 1, [kind |-> "MemRead", count |-> endr, l |-> R.sl])

MemRead(R, endr) == Arm(R, 1, [kind |-> "MemRead", count |-> endr + 1, l |-> R.sl])

\* Registers::update_registers: the match, then increase_pc(pc_increment).
update_registers(R, i, rnd, checks) ==
    LET arm ==
        CASE i.op = "Ignore"           -> Arm(R, 1, None)
          [] i.op = "ClearDisplay"     -> Arm(R, 1, [kind |-> "ClearDisplay"])
          [] i.op = "ReturnSubroutine" -> ReturnSubroutine(R, checks)
          [] i.op = "JmpAddr"          -> JmpAddr(R, i.addr)
          [] i.op = "JmpAddrOffReg0"   -> JmpAddrOffReg0(R, i.addr)
          [] i.op = "CallSub"          -> CallSub(R, i.addr)
          [] i.op = "SkipEq"           -> SkipEq(R, i.r, i.val)
          [] i.op = "SkipNeq"          -> SkipNeq(R, i.r, i.val)
          [] i.op = "SkipRegEq"        -> SkipRegEq(R, i.r, i.f)
          [] i.op = "SetByte"          -> SetByte(R, i.r, i.val)
          [] i.op = "AddByte"          -> AddByte(R, i.r, i.val, checks)
          [] i.op = "SetRegV"          -> SetRegV(R, i.r, i.f)
          [] i.op = "OrRegV"           -> OrRegV(R, i.r, i.f)
          [] i.op = "AndRegV"          -> AndRegV(R, i.r, i.f)
          [] i.op = "XorRegV"          -> XorRegV(R, i.r, i.f)
          [] i.op = "AddRegV"          -> AddRegV(R, i.r, i.f)
          [] i.op = "SubRegV"          -> SubRegV(R, i.r, i.f)
          [] i.op = "ShrRegV"          -> ShrRegV(R, i.r)
          [] i.op = "SubNRegV"         -> SubNRegV(R, i.r, i.f)
          [] i.op = "ShlRegV"          -> ShlRegV(R, i.r)
          [] i.op = "SkipRegNeq"       -> SkipRegNeq(R, i.r, i.f)
          [] i.op = "SetRegL"          -> SetRegL(R, i.addr)
          [] i.op = "RndAnd"           -> RndAnd(R, i.r, i.val, rnd)
          [] i.op = "DispSpr"          -> DispSpr(R, i.r, i.f, i.val)
          [] i.op = "SkipKeyPressed"   -> SkipKeyPressed(R, i.r)
          [] i.op = "SkipKeyReleased"  -> SkipKeyReleased(R, i.r)
          [] i.op = "SetDelayToReg"    -> SetDelayToReg(R, i.r)
          [] i.op = "WaitKeyPress"     -> WaitKeyPress(R, i.r)
          [] i.op = "SetDelayFromReg"  -> SetDelayFromReg(R, i.r)
          [] i.op = "SetSoundFromReg"  -> SetSoundFromReg(R, i.r)
          [] i.op = "AddRegL"          -> AddRegL(R, i.r, checks)
          [] i.op = "SetRegLFontAddrFromReg" -> SetRegLFontAddrFromReg(R, i.r)
          [] i.op = "MemDump"          -> MemDump(R, i.r)
          [] i.op = "MemRead"          -> MemRead(R, i.r)
    IN increase_pc(arm, checks)

\* Registers::store_from_v0
store_from_v0(R, values) ==
    [R EXCEPT !.g = [i \in RegIndex |-> IF i < Len(values) THEN values[i + 1] ELSE R.g[i]]]

\* update_timers decrementing without the test for zero (u8 wrapping).
update_timers_Wrap(R) ==
    [ regs |-> [R EXCEPT !.dt = (R.dt + 255) % 256,
                         !.st = (R.st + 255) % 256],
      beep |-> R.st > 0 ]

\* Registers::update_timers: the registers after the tick, and whether to beep.
update_timers(R) ==
    [ regs |-> [R EXCEPT !.dt = IF R.dt > 0 THEN R.dt - 1 ELSE R.dt,
                         !.st = IF R.st > 0 THEN R.st - 1 ELSE R.st],
      beep |-> R.st > 0 ]

\* Registers::update_general_register
update_general_register(R, r, value) ==
    IF r >= 15 THEN R ELSE [R EXCEPT !.g[r] = value]

(***************************************************************************)
(* Memory.  The 4096-byte vector is kept as the loaded file image plus the *)
(* bytes written since construction (only those that differ from it).      *)
(***************************************************************************)
font_pack ==
    << 15,  9,  9,  9, 15,      2,  6,  2,  2,  7,
       15,  1, 15,  8, 15,     15,  1, 15,  1, 15,
        9,  9, 15,  1,  1,     15,  8, 15,  1, 15,
       15,  8, 15,  9, 15,     15,  1,  2,  4,  4,
       15,  9, 15,  9, 15,     15,  9, 15,  1, 15,
       15,  9, 15,  9,  9,     14,  9, 14,  9, 14,
       15,  8,  8,  8, 15,     14,  9,  9,  9, 14,
       15,  8, 15,  8, 15,     15,  8, 15,  8,  8 >>

\* Memory::new: zeroes, the font from address 0, the file from 0x200 (the zip
\* stops at the end of the vector).
Memory_new(data_buffer) == [file |-> data_buffer, written |-> << >>]

\* The byte Memory::new leaves at address a.
InitialByte(M, a) ==
    IF a >= PROGRAM_OFFSET /\ a - PROGRAM_OFFSET < Len(M.file) THEN M.file[a - PROGRAM_OFFSET + 1]
    ELSE IF a < Len(font_pack) THEN font_pack[a + 1]
    ELSE 0

\* self.memory[a]
MemAt(M, a) == IF a \in DOMAIN M.written THEN M.written[a] ELSE InitialByte(M, a)

\* self.memory[a] = val
MemSet(M, a, val) ==
    LET keep == IF val = InitialByte(M, a)
                THEN DOMAIN M.written \ {a} ELSE DOMAIN M.written \cup {a}
    IN [M EXCEPT !.written = [x \in keep |-> IF x = a THEN val ELSE M.written[x]]]

\* Memory::get_data_bytes: asserts addr < 4096, then skip(addr).take(count).
get_data_bytes(M, addr, count) ==
    IF addr >= MEMORY_SIZE THEN [panic |-> TRUE, bytes |-> << >>]
    ELSE LET avail == MEMORY_SIZE - addr
             len == IF count < avail THEN count ELSE avail
         IN [panic |-> FALSE, bytes |-> [i \in 1 .. len |-> MemAt(M, addr + i - 1)]]

RECURSIVE store_from(_, _, _)
\* Memory::store_from: per value, assert l < 4096, write, l += 1.
store_from(M, dump_vals, l) ==
    IF dump_vals = << >> THEN [panic |-> FALSE, mem |-> M]
    ELSE IF l >= MEMORY_SIZE THEN [panic |-> TRUE, mem |-> M]
    ELSE store_from(MemSet(M, l, Head(dump_vals)), Tail(dump_vals), l + 1)

(***************************************************************************)
(* Decoder (isa.rs).                                                       *)
(***************************************************************************)
NoneInst == Inst("Unrecognized", 0, 0, 0, 0)

\* parse_instruction with every unmatched word decoded as the no-op.
parse_instruction_Lenient(b0, b1) ==
    IF b0 \div 16 = 6 THEN Inst("SetByte", b0 % 16, 0, b1, 0)
    ELSE IF b0 \div 16 = 7 THEN Inst("AddByte", b0 % 16, 0, b1, 0)
    ELSE IF b0 \div 16 = 2 THEN Inst("CallSub", 0, 0, 0, (b0 % 16) * 256 + b1)
    ELSE Inst("Ignore", 0, 0, 0, 0)

\* isa::parse_instruction: NoneInst stands for Option::None.
parse_instruction(b0, b1) ==
    LET opr0 == b0 \div 16
        r    == b0 % 16
        val  == b1
        nnn  == r * 256 + b1
    IN CASE opr0 = 0  -> ( IF r = 0 /\ b1 = 224 THEN Inst("ClearDisplay", 0, 0, 0, 0)
                           ELSE IF r = 0 /\ b1 = 238 THEN Inst("ReturnSubroutine", 0, 0, 0, 0)
                           ELSE Inst("Ignore", 0, 0, 0, 0) )
         [] opr0 = 1  -> Inst("JmpAddr", 0, 0, 0, nnn)
         [] opr0 = 2  -> Inst("CallSub", 0, 0, 0, nnn)
         [] opr0 = 3  -> Inst("SkipEq", r, 0, val, 0)
         [] opr0 = 4  -> Inst("SkipNeq", r, 0, val, 0)
         [] opr0 = 6  -> Inst("SetByte", r, 0, val, 0)
         [] opr0 = 7  -> Inst("AddByte", r, 0, val, 0)
         [] opr0 = 8  -> ( IF b1 % 16 = 0 THEN Inst("SetRegV", r, b1 \div 16, 0, 0)
                           ELSE NoneInst )
         [] opr0 = 10 -> Inst("SetRegL", 0, 0, 0, nnn)
         [] opr0 = 12 -> Inst("RndAnd", r, 0, val, 0)
         [] opr0 = 13 -> Inst("DispSpr", r, b1 \div 16, b1 % 16, 0)
         [] OTHER     -> NoneInst

\* Memory::parse_instruction: the out-of-range test `(addr + 1) as usize >= len`
\* is computed in u16, so addr = 0xFFFF overflows: a panic with overflow checks,
\* and without them a wrap to 0 followed by an out-of-bounds index (a panic too).
fetch(M, addr) ==
    IF addr + 1 > 65535 THEN [panic |-> TRUE, inst |-> NoneInst]
    ELSE IF addr + 1 >= MEMORY_SIZE THEN [panic |-> FALSE, inst |-> NoneInst]
    ELSE [panic |-> FALSE, inst |-> parse_instruction(MemAt(M, addr), MemAt(M, addr + 1))]

(***************************************************************************)
(* Display buffer (engine/screen.rs is not part of the sources; its        *)
(* contract is taken from the design document, section 4.4).               *)
(***************************************************************************)
SCREEN_W == 64
SCREEN_H == 32

\* Column c (0 = leftmost) of a sprite row is bit 7 - c of its byte.
SpriteBit(b, c) == (b \div (2 ^ (7 - c))) % 2

\* The pixels a sprite sets bits on: horizontal wrap, rows clipped at the bottom.
SpritePixels(pos, bytes) ==
    { <<(pos[1] + c) % SCREEN_W, (pos[2] % SCREEN_H) + (i - 1)>> :
        <<i, c>> \in { p \in (1 .. Len(bytes)) \X (0 .. 7) :
                        /\ SpriteBit(bytes[p[1]], p[2]) = 1
                        /\ (pos[2] % SCREEN_H) + (p[1] - 1) < SCREEN_H } }

\* Screen::draw: XOR blit; the second component is is_any_erased.
draw(scr, pos, bytes) ==
    LET px == SpritePixels(pos, bytes)
    IN <<(scr \ px) \cup (px \ scr), (scr \cap px) # {}>>

(***************************************************************************)
(* Keypad and run-state.                                                   *)
(***************************************************************************)
Keypad_new == [k \in 0 .. 15 |-> FALSE]
\* reset_all leaving the keys as they are.
reset_all_Kept(kp) == kp
\* Keypad::reset_all
reset_all(kp) == [k \in 0 .. 15 |-> FALSE]
set_press(kp, key) == [kp EXCEPT ![key] = TRUE]

Normal == [kind |-> "Normal", r |-> 0]
WaitKey(r) == [kind |-> "WaitKeyPress", r |-> r]

(***************************************************************************)
(* main.rs, the body of `if let Some(instruction)`: update_registers, then *)
(* the dispatch of the side effect it returned.                            *)
(***************************************************************************)
Machine(R, M, scr, ms, panic) ==
    [regs |-> R, mem |-> M, scr |-> scr, ms |-> ms, panic |-> panic]

\* The match on side_effect.  CheckKeyPressed / CheckKeyReleased have no arm
\* in main.rs: nothing is done with them.
dispatch(R, M, scr, ms, se) ==
    CASE se.kind = "ClearDisplay" -> Machine(R, M, {}, ms, FALSE)
      [] se.kind = "Draw" ->
            LET data == get_data_bytes(M, se.l, se.n)
                drawn == draw(scr, se.pos, data.bytes)
            IN IF data.panic THEN Machine(R, M, scr, ms, TRUE)
               ELSE Machine(update_vf(R, drawn[2]), M, drawn[1], ms, FALSE)
      [] se.kind = "MemDump" ->
            LET stored == store_from(M, se.dump_vals, se.l)
            IN Machine(R, stored.mem, scr, ms, stored.panic)
      [] se.kind = "MemRead" ->
            LET data == get_data_bytes(M, se.l, se.count)
            IN IF data.panic THEN Machine(R, M, scr, ms, TRUE)
               ELSE Machine(store_from_v0(R, data.bytes), M, scr, ms, FALSE)
      [] se.kind = "WaitKeyPress" -> Machine(R, M, scr, WaitKey(se.r), FALSE)
      [] OTHER -> Machine(R, M, scr, ms, FALSE)

execute(R, M, scr, ms, inst, rnd, checks) ==
    LET res == update_registers(R, inst, rnd, checks)
    IN IF res.panic THEN Machine(R, M, scr, ms, TRUE)
       ELSE dispatch(res.regs, M, scr, ms, res.se)

(***************************************************************************)
(* Instructions the engine is driven with.                                 *)
(***************************************************************************)
\* Addresses used as jump / call operands.
AddrOperands == {512, 514, 768}
\* Values given to the index register (it starts at 0, the font): free memory,
\* and the last address from which all 16 registers still fit.
IndexOperands == {768, MEMORY_SIZE - GENERAL_REGISTERS_CNT}

Op0(op) == Inst(op, 0, 0, 0, 0)
OpR(ops) == { Inst(op, r, 0, 0, 0) : <<op, r>> \in ops \X RegOperands }
OpRR(ops) == { Inst(op, r, f, 0, 0) : <<op, r, f>> \in ops \X RegOperands \X RegOperands }
OpRV(ops) == { Inst(op, r, 0, v, 0) : <<op, r, v>> \in ops \X RegOperands \X ByteVals }
OpA(ops, addrs) == { Inst(op, 0, 0, 0, a) : <<op, a>> \in ops \X addrs }

LoadInsts == OpRV({"SetByte"})

\* The instructions that set the flag, and the two that read VF as an operand.
AluInsts ==
    OpRR({"SetRegV", "AddRegV", "SubRegV", "SubNRegV"})
    \cup OpR({"ShrRegV", "ShlRegV"})
    \cup { Inst("SkipEq", 15, 0, v, 0) : v \in {0, 1} }

LogicInsts == OpRR({"OrRegV", "AndRegV", "XorRegV"})

SkipInsts ==
    OpRV({"SkipEq", "SkipNeq"}) \cup OpRR({"SkipRegEq", "SkipRegNeq"})
    \cup OpR({"SkipKeyPressed", "SkipKeyReleased"})

FlowInsts ==
    {Op0("Ignore"), Op0("ReturnSubroutine")}
    \cup OpA({"JmpAddr", "JmpAddrOffReg0", "CallSub"}, AddrOperands)

BulkInsts ==
    OpA({"SetRegL"}, IndexOperands)
    \cup OpR({"MemDump", "MemRead"})

OtherInsts ==
    {Op0("ClearDisplay")}
    \cup OpRV({"AddByte", "RndAnd"})
    \cup OpR({"SetDelayToReg", "WaitKeyPress", "SetDelayFromReg", "SetSoundFromReg",
              "AddRegL", "SetRegLFontAddrFromReg"})
    \cup { Inst("DispSpr", r, f, n, 0) : <<r, f, n>> \in RegOperands \X RegOperands \X {1, GLYPH_BYTES} }

AllInsts == LoadInsts \cup AluInsts \cup LogicInsts \cup SkipInsts \cup FlowInsts \cup BulkInsts \cup OtherInsts

(***************************************************************************)
(* Actions.                                                                *)
(***************************************************************************)
NoDump == [valid |-> FALSE, dump_vals |-> << >>, l |-> 0]

\* No function called directly yet.
NoCall == [fn |-> "none", addr |-> 0, count |-> 0, vals |-> << >>, panic |-> FALSE, out |-> << >>]

\* No iteration of the loop yet.  `events` lists the steps the iteration took,
\* `key` the key that resolved a wait (an Option, as a sequence), `queried`
\* whether the key a skip-if-key instruction asked about was down (an Option
\* too), `beep` whether
\* beep() was called, `before` the timers just before they were ticked,
\* `written` the value most recently written to each timer (0 by
\* Registers::new) and `ticks` the ticks since.
NoFrame ==
    [ events |-> << >>, key |-> << >>, queried |-> << >>, beep |-> FALSE,
      before |-> [dt |-> 0, st |-> 0],
      written |-> [dt |-> 0, st |-> 0], ticks |-> [dt |-> 0, st |-> 0] ]

InitWith(data_buffer) ==
    /\ registers = Registers_new
    /\ memory = Memory_new(data_buffer)
    /\ screen = {}
    /\ keypad = Keypad_new
    /\ machine_state = Normal
    /\ status = "running"
    /\ overflow_checks \in BOOLEAN
    /\ last = NoInst
    /\ prev = Registers_new
    /\ dumped = NoDump
    /\ call = NoCall
    /\ frame = NoFrame
    /\ steps = 0

\* The engine on its own: the devices as main.rs constructs them, an empty file.
InitEngine == InitWith(<< >>)

\* The same, for instruction families none of whose arithmetic can overflow:
\* the build profile makes no difference to them.
InitChecked == InitEngine /\ overflow_checks

\* The record of a MemDump side effect that reached Memory::store_from.
DumpOf(R, inst, old) ==
    IF inst.op = "MemDump"
    THEN [valid |-> TRUE, dump_vals |-> MemDump(R, inst.r).se.dump_vals, l |-> R.sl]
    ELSE old

\* One instruction handed to the engine with the run-state Normal, and its side
\* effect dispatched (main.rs:139-180).
Execute(inst, bound) ==
    /\ status = "running"
    /\ machine_state = Normal
    /\ steps < bound
    /\ inst.op = "CallSub" => Len(registers.spst) < MaxStack
    /\ \E rnd \in (IF inst.op = "RndAnd" THEN ByteVals ELSE {0}) :
          LET m == execute(registers, memory, screen, machine_state, inst, rnd, overflow_checks)
          IN /\ registers' = m.regs
             /\ memory' = m.mem
             /\ screen' = m.scr
             /\ machine_state' = m.ms
             /\ status' = IF m.panic THEN "panicked" ELSE "running"
    /\ last' = inst
    /\ prev' = registers
    /\ dumped' = DumpOf(registers, inst, dumped)
    /\ steps' = steps + 1
    /\ UNCHANGED <<keypad, overflow_checks, call, frame>>

ExecuteAlu == \E inst \in LoadInsts \cup AluInsts : Execute(inst, MaxSteps)

\* Loads of two nonzero values: enough to make registers equal or different,
\* and to tell a restored register from an overwritten one.
FewLoads == { i \in LoadInsts : i.val \in {1, 255} }

ExecuteFlow == \E inst \in FewLoads \cup FlowInsts \cup SkipInsts : Execute(inst, MaxSteps)

ExecuteBulk == \E inst \in FewLoads \cup BulkInsts : Execute(inst, MaxBulkSteps)

\* Any instruction at all, after a prologue of register loads.
ExecuteAny ==
    \E inst \in AllInsts :
        /\ last.op \in {"None", "SetByte"}
        /\ Execute(inst, MaxEngineSteps)

\* Drawing glyphs: loads of a digit and of a position, the font address of a
\* digit, draws of a glyph's rows, and clearing the display.
FontInsts ==
    { Inst("SetByte", r, 0, v, 0) : <<r, v>> \in {0, 1} \X {0, 1, 8} }
    \cup OpR({"SetRegLFontAddrFromReg"})
    \cup { Inst("DispSpr", r, f, GLYPH_BYTES, 0) : <<r, f>> \in {0, 1} \X {0, 1} }
    \cup {Op0("ClearDisplay")}

ExecuteFont == \E inst \in FontInsts : Execute(inst, MaxSteps)

\* Index values near the end of the u16 range.  The engine reaches them by
\* adding registers to the index (0xFx1E): 256 and 257 additions of 255 from 0
\* give 0xFF00 and 0xFFFF.
IndexVals == {0, 65536 - 256, 65536 - 255, 65536 - 1}

\* The engine with the index register at one of these values, in either build.
InitIndex ==
    /\ \E l \in IndexVals : registers = [Registers_new EXCEPT !.sl = l]
    /\ memory = Memory_new(<< >>)
    /\ screen = {}
    /\ keypad = Keypad_new
    /\ machine_state = Normal
    /\ status = "running"
    /\ overflow_checks \in BOOLEAN
    /\ last = NoInst
    /\ prev = Registers_new
    /\ dumped = NoDump
    /\ call = NoCall
    /\ frame = NoFrame
    /\ steps = 0

ExecuteIndex == \E inst \in LoadInsts \cup OpR({"AddRegL"}) : Execute(inst, MaxSteps)

SpecAlu == InitChecked /\ [][ExecuteAlu]_vars
SpecIndex == InitIndex /\ [][ExecuteIndex]_vars
SpecFont == InitChecked /\ [][ExecuteFont]_vars
SpecFlow == InitChecked /\ [][ExecuteFlow]_vars
SpecBulk == InitChecked /\ [][ExecuteBulk]_vars
SpecEngine == InitEngine /\ [][ExecuteAny]_vars

(***************************************************************************)
(* The functions of Memory called directly, on files of every size class.  *)
(***************************************************************************)
\* Bytes of memory from the load address to the end.
FILE_SPACE == MEMORY_SIZE - PROGRAM_OFFSET

\* A file of n bytes, none of them zero.
Blob(n) == [i \in 1 .. n |-> 1 + (i % 255)]

\* Files: empty, one word, and one that fills the space exactly, falls short
\* of it by a byte, or exceeds it.
Blobs == { Blob(n) : n \in {0, 2, FILE_SPACE - 1, FILE_SPACE} \cup (FILE_SPACE + 1 .. FILE_SPACE + BlobExcess) }

\* u16 addresses given to Memory::parse_instruction: the font, the file, both
\* sides of the end of memory, and the end of the u16 range.
FetchAddrs == {0, PROGRAM_OFFSET, PROGRAM_OFFSET + 1,
               MEMORY_SIZE - 3, MEMORY_SIZE - 2, MEMORY_SIZE - 1, MEMORY_SIZE, 65534, 65535}
\* Start addresses and lengths of the ranges read and written.
RangeAddrs == {0, PROGRAM_OFFSET, MEMORY_SIZE - GLYPH_BYTES, MEMORY_SIZE - 1, MEMORY_SIZE}
RangeCounts == {0, 1, GLYPH_BYTES, GENERAL_REGISTERS_CNT}
RangeVals == { [i \in 1 .. n |-> 256 - i] : n \in RangeCounts }

InitMemory == (\E data_buffer \in Blobs : InitWith(data_buffer)) /\ overflow_checks

\* A direct call leaves everything but the memory and the call record alone.
Called(c, mem) ==
    /\ status = "running"
    /\ steps < MaxMemorySteps
    /\ steps' = steps + 1
    /\ call' = c
    /\ memory' = mem
    /\ status' = IF c.panic THEN "panicked" ELSE "running"
    /\ UNCHANGED <<registers, screen, keypad, machine_state, overflow_checks,
                   last, prev, dumped, frame>>

\* memory.parse_instruction(addr)
CallFetch ==
    \E addr \in FetchAddrs :
        LET f == fetch(memory, addr)
        IN Called([fn |-> "parse_instruction", addr |-> addr, count |-> 2, vals |-> << >>,
                   panic |-> f.panic, out |-> f.inst], memory)

\* memory.get_data_bytes(addr, count)
CallRead ==
    \E addr \in RangeAddrs, count \in RangeCounts :
        LET d == get_data_bytes(memory, addr, count)
        IN Called([fn |-> "get_data_bytes", addr |-> addr, count |-> count, vals |-> << >>,
                   panic |-> d.panic, out |-> d.bytes], memory)

\* memory.store_from(dump_vals, l)
CallStore ==
    \E l \in RangeAddrs, dump_vals \in RangeVals :
        LET w == store_from(memory, dump_vals, l)
        IN Called([fn |-> "store_from", addr |-> l, count |-> Len(dump_vals), vals |-> dump_vals,
                   panic |-> w.panic, out |-> << >>], w.mem)

NextMemory == CallFetch \/ CallRead \/ CallStore

SpecMemory == InitMemory /\ [][NextMemory]_vars

\* isa::parse_instruction(&[b0, b1]) on any one of the 65536 words.
CallDecode ==
    /\ status = "running"
    /\ call = NoCall
    /\ \E b0 \in Byte, b1 \in Byte :
        /\ call' = [fn |-> "isa::parse_instruction", addr |-> 0, count |-> 2, vals |-> <<b0, b1>>,
                     panic |-> FALSE, out |-> parse_instruction(b0, b1)]
        /\ steps' = steps + 1
        /\ UNCHANGED <<registers, memory, screen, keypad, machine_state, status, overflow_checks,
                       last, prev, dumped, frame>>

SpecDecode == InitChecked /\ [][CallDecode]_vars

(***************************************************************************)
(* The frame loop of main.rs.                                              *)
(***************************************************************************)
\* Instruction words the loaded files are made of.
RomWords ==
    { <<96, 255>>,    \* 60FF  V0 = 255
      <<112, 1>>,     \* 7001  V0 += 1
      <<128, 20>>,    \* 8014  V0 += V1 with carry
      <<34, 0>>,      \* 2200  call 0x200
      <<0, 238>>,     \* 00EE  return
      <<18, 3>>,      \* 1203  jump to 0x203
      <<208, 1>>,     \* D001  draw 1 row at (V0, V0)
      <<240, 10>>,    \* F00A  wait for a key
      <<255, 255>> }  \* FFFF  no encoding

\* The files: MaxRomWords words each.
Roms ==
    { [i \in 1 .. (2 * MaxRomWords) |-> w[(i + 1) \div 2][2 - (i % 2)]] :
        w \in [1 .. MaxRomWords -> RomWords] }

\* What window.getch() yields in a frame: nothing (or a character that is no
\* key), KeyExit, or the character of key k.
NoInput == [kind |-> "none", key |-> 0]
ExitInput == [kind |-> "exit", key |-> 0]
KeyInput(k) == [kind |-> "key", key |-> k]
Inputs == {NoInput, ExitInput} \cup { KeyInput(k) : k \in {1, 15} }

InitMain == \E data_buffer \in Roms : InitWith(data_buffer)

\* The run-state test with the comparison dropped: never suspended.
Suspended_Never(ms) == FALSE

\* The negation of `if machine_state == MachineState::Normal` (main.rs:133).
Suspended(ms) == ms # Normal

\* The record of an iteration that got as far as the timers: `R` holds the
\* registers as the instruction (if any) left them, `inst` is that instruction.
Ticked(fr, events, key, kp, inst, R) ==
    LET wrote_dt == inst.op = "SetDelayFromReg"
        wrote_st == inst.op = "SetSoundFromReg"
    IN [ events  |-> events \o <<"tick", "reset">>,
         key     |-> key,
         queried |-> IF inst.op \in {"SkipKeyPressed", "SkipKeyReleased"}
                     THEN <<R.g[inst.r] \in DOMAIN kp /\ kp[R.g[inst.r]]>>
                     ELSE << >>,
         beep    |-> update_timers(R).beep,
         before  |-> [dt |-> R.dt, st |-> R.st],
         written |-> [dt |-> IF wrote_dt THEN R.dt ELSE fr.written.dt,
                      st |-> IF wrote_st THEN R.st ELSE fr.written.st],
         ticks   |-> [dt |-> IF wrote_dt THEN 1 ELSE fr.ticks.dt + 1,
                      st |-> IF wrote_st THEN 1 ELSE fr.ticks.st + 1] ]

\* The record of an iteration that left the loop or the process before them.
Broken(fr, events, key) ==
    [fr EXCEPT !.events = events, !.key = key, !.queried = << >>, !.beep = FALSE]

\* One iteration of `loop` (main.rs:116-200); `fetched` is what
\* memory.parse_instruction(registers.get_pc()) yields at main.rs:135.
FrameOn(input, fetched, bound) ==
    /\ status = "running"
    /\ steps < bound
    /\ steps' = steps + 1
    /\ UNCHANGED <<overflow_checks, call>>
    /\ IF input.kind = "exit"
       THEN /\ status' = "exited"
            /\ frame' = Broken(frame, << >>, << >>)
            /\ UNCHANGED <<registers, memory, screen, keypad, machine_state, last, prev, dumped>>
       ELSE LET pressed == input.kind = "key"
                kp1 == IF pressed THEN set_press(keypad, input.key) ELSE keypad
                resolved == machine_state.kind = "WaitKeyPress" /\ pressed
                R1 == IF resolved
                      THEN update_general_register(registers, machine_state.r, input.key)
                      ELSE registers
                ms1 == IF resolved THEN Normal ELSE machine_state
                ev1 == IF resolved THEN <<"resolve">> ELSE << >>
                key == IF resolved THEN <<input.key>> ELSE << >>
            IN IF Suspended(ms1)
               THEN \* suspended: timers and keypad only
                    /\ registers' = update_timers(R1).regs
                    /\ keypad' = reset_all(kp1)
                    /\ machine_state' = ms1
                    /\ last' = NoInst
                    /\ frame' = Ticked(frame, ev1, key, kp1, NoInst, R1)
                    /\ UNCHANGED <<memory, screen, status, prev, dumped>>
               ELSE IF fetched.panic
               THEN /\ status' = "panicked"
                    /\ registers' = R1
                    /\ keypad' = kp1
                    /\ machine_state' = ms1
                    /\ last' = NoInst
                    /\ frame' = Broken(frame, ev1, key)
                    /\ UNCHANGED <<memory, screen, prev, dumped>>
               ELSE IF fetched.inst = NoneInst
               THEN \* "Failure. Abort program.": break, before the timers
                    /\ status' = "halted"
                    /\ registers' = R1
                    /\ keypad' = kp1
                    /\ machine_state' = ms1
                    /\ last' = NoneInst
                    /\ prev' = R1
                    /\ frame' = Broken(frame, ev1, key)
                    /\ UNCHANGED <<memory, screen, dumped>>
               ELSE \E rnd \in (IF fetched.inst.op = "RndAnd" THEN ByteVals ELSE {0}) :
                    LET m == execute(R1, memory, screen, ms1, fetched.inst, rnd, overflow_checks)
                    IN /\ last' = fetched.inst
                       /\ prev' = R1
                       /\ dumped' = DumpOf(R1, fetched.inst, dumped)
                       /\ memory' = m.mem
                       /\ screen' = m.scr
                       /\ machine_state' = m.ms
                       /\ IF m.panic
                          THEN /\ status' = "panicked"
                               /\ registers' = m.regs
                               /\ keypad' = kp1
                               /\ frame' = Broken(frame, ev1 \o <<"execute">>, key)
                          ELSE /\ status' = "running"
                               /\ registers' = update_timers(m.regs).regs
                               /\ keypad' = reset_all(kp1)
                               /\ frame' = Ticked(frame, ev1 \o <<"execute">>, key, kp1, fetched.inst, m.regs)

\* The iteration as main.rs runs it: the instruction comes from memory at PC
\* (key-wait resolution does not move PC).
Frame(input) == FrameOn(input, fetch(memory, registers.pc), MaxFrames)

RunFrame == \E input \in Inputs : Frame(input)

Next == RunFrame

Spec == InitMain /\ [][Next]_vars

(***************************************************************************)
(* The loop with the instruction of each iteration given.  Registers       *)
(* executes the key and timer instructions, but isa.rs does not decode     *)
(* their words yet, so no file makes memory.parse_instruction yield them.  *)
(***************************************************************************)
Given(inst) == [panic |-> FALSE, inst |-> inst]

\* Waits on two ordinary registers and on VF, two instructions that read a
\* register the key went to (one starts the delay timer, one draws a sprite
\* row), the no-op and a failed fetch.
KeyInsts ==
    OpR({"WaitKeyPress"})
    \cup {Op0("Ignore"), Inst("SetDelayFromReg", 0, 0, 0, 0), Inst("DispSpr", 0, 0, 1, 0), NoneInst}

RunKeys == \E input \in Inputs, inst \in KeyInsts : FrameOn(input, Given(inst), MaxFrames)

SpecKeys == InitChecked /\ [][RunKeys]_vars

\* Loads of V0 and V1, the instructions that write a timer from them, the one
\* that reads the delay timer, and the no-op; no key is pressed.
TimerInsts ==
    { Inst("SetByte", r, 0, v, 0) : <<r, v>> \in {0, 1} \X (1 .. MaxTimer) }
    \cup { Inst("SetDelayFromReg", 0, 0, 0, 0), Inst("SetSoundFromReg", 1, 0, 0, 0),
           Inst("SetDelayToReg", 0, 0, 0, 0), Op0("Ignore") }

\* The skip-if-key instructions on a register holding key 0 or key 1, the load
\* that selects the key, and the no-op a skip would pass over.
SkipKeyInsts ==
    { Inst(op, r, 0, 0, 0) : <<op, r>> \in {"SkipKeyPressed", "SkipKeyReleased"} \X {0, 1} }
    \cup {Inst("SetByte", 0, 0, 1, 0), Op0("Ignore")}

RunSkipKeys ==
    \E input \in Inputs, inst \in SkipKeyInsts : FrameOn(input, Given(inst), MaxFrames)

SpecSkipKeys == InitChecked /\ [][RunSkipKeys]_vars

RunTimers == \E inst \in TimerInsts : FrameOn(NoInput, Given(inst), MaxFrames)

SpecTimers == InitChecked /\ [][RunTimers]_vars

(***************************************************************************)
(* Properties.                                                             *)
(***************************************************************************)
\* An instruction was handed to the engine and completed.
Completed(op) == last.op = op /\ status = "running"

\* C1: add-with-carry (8xy4) leaves Vx = (Vx + Vy) mod 256 and the carry flag
\* true iff the old Vx + Vy >= 256, for every register pair and byte values.
C1_AddWithCarry ==
    Completed("AddRegV") =>
        LET sum == prev.g[last.r] + prev.g[last.f]
        IN /\ registers.g[last.r] = sum % 256
           /\ registers.vf = (sum >= 256)

\* An add of two different, nonzero registers that carried.
C1_Witness ==
    /\ Completed("AddRegV")
    /\ last.r # last.f
    /\ prev.g[last.r] = 128 /\ prev.g[last.f] = 128
    /\ registers.vf /\ registers.g[last.r] = 0

\* C2: subtract Vx - Vy (8xy5) leaves Vx = (Vx - Vy) mod 256 and the flag true
\* iff Vx >= Vy (no borrow).
C2_SubNoBorrowFlag ==
    Completed("SubRegV") =>
        /\ registers.g[last.r] = (prev.g[last.r] - prev.g[last.f]) % 256
        /\ registers.vf = (prev.g[last.r] >= prev.g[last.f])

\* A subtraction of a larger register from a smaller one: borrow, flag false.
C2_Witness ==
    /\ Completed("SubRegV")
    /\ last.r # last.f
    /\ prev.g[last.r] = 1 /\ prev.g[last.f] = 128
    /\ ~registers.vf /\ registers.g[last.r] = 129

\* C3: reverse subtract (8xy7) leaves Vx = (Vy - Vx) mod 256, the flag true iff
\* Vy >= Vx, and Vy unchanged when x # y.
C3_SubNSwapped ==
    Completed("SubNRegV") =>
        /\ registers.g[last.r] = (prev.g[last.f] - prev.g[last.r]) % 256
        /\ registers.vf = (prev.g[last.f] >= prev.g[last.r])
        /\ last.r # last.f => registers.g[last.f] = prev.g[last.f]

\* A reverse subtraction with Vy > Vx: no borrow, flag true.
C3_Witness ==
    /\ Completed("SubNRegV")
    /\ last.r # last.f
    /\ prev.g[last.r] = 1 /\ prev.g[last.f] = 128
    /\ registers.vf /\ registers.g[last.r] = 127 /\ registers.g[last.f] = 128

\* C4: shift-right leaves Vx = v >> 1 with flag = v & 1; shift-left leaves
\* Vx = (v << 1) mod 256 with flag = ((v & 0x80) # 0); v is the value before.
C4_Shifts ==
    /\ Completed("ShrRegV") =>
          /\ registers.g[last.r] = prev.g[last.r] \div 2
          /\ registers.vf = (Bitwise("and", prev.g[last.r], 1, 8) = 1)
    /\ Completed("ShlRegV") =>
          /\ registers.g[last.r] = (prev.g[last.r] * 2) % 256
          /\ registers.vf = (Bitwise("and", prev.g[last.r], 128, 8) # 0)

\* A left shift of 0x80: the result is 0 and the flag is the bit shifted out.
C4_Witness ==
    /\ Completed("ShlRegV")
    /\ prev.g[last.r] = 128
    /\ registers.g[last.r] = 0 /\ registers.vf

\* C5: call (2nnn) at PC = a followed immediately by return (00EE) leaves
\* PC = a + 2 and the call stack as it was before the call; the value the call
\* pushed is a.
C5_CallThenReturn ==
    [][ ( /\ Completed("CallSub")
          /\ steps' = steps + 1
          /\ last'.op = "ReturnSubroutine" )
        => /\ registers.spst = Append(prev.spst, prev.pc)
           /\ status' = "running"
           /\ registers'.pc = prev.pc + 2
           /\ registers'.spst = prev.spst ]_vars

\* A return executed right after nested calls (every earlier instruction was a
\* call), back to the word after the inner call site, one frame left on the stack.
C5_Witness ==
    /\ Completed("ReturnSubroutine")
    /\ Len(prev.spst) = steps - 1
    /\ Len(registers.spst) >= 1
    /\ registers.pc = prev.spst[Len(prev.spst)] + 2

\* The skip condition of an instruction, on the registers before it.
SkipHolds(i, R) ==
    CASE i.op = "SkipEq"          -> R.g[i.r] = i.val
      [] i.op = "SkipNeq"         -> R.g[i.r] # i.val
      [] i.op = "SkipRegEq"       -> R.g[i.r] = R.g[i.f]
      [] i.op = "SkipRegNeq"      -> R.g[i.r] # R.g[i.f]
      [] i.op = "SkipKeyPressed"  -> R.g[i.r] \in DOMAIN keypad /\ keypad[R.g[i.r]]
      [] i.op = "SkipKeyReleased" -> ~(R.g[i.r] \in DOMAIN keypad /\ keypad[R.g[i.r]])
      [] OTHER -> FALSE

SetsPc == {"JmpAddr", "JmpAddrOffReg0", "CallSub", "ReturnSubroutine"}

\* C6: after any executed instruction the new PC is old PC + 2, except that
\* jump/call/return set it explicitly and a skip whose condition holds yields
\* old PC + 4.
C6_PcPolicy ==
    (last # NoInst /\ status = "running" /\ last.op \notin SetsPc) =>
        registers.pc = prev.pc + (IF SkipHolds(last, prev) THEN 4 ELSE 2)

FlagByte(flag) == IF flag THEN 1 ELSE 0
FlagOps == {"AddRegV", "SubRegV", "SubNRegV", "ShrRegV", "ShlRegV", "DispSpr"}

\* C7: after a flag-setting instruction, the next instruction that reads
\* register 0xF as a plain operand (copy Vx <- VF, skip-if-VF-equals-literal)
\* observes 1 if the flag was set and 0 if it was cleared.
C7_FlagIsVF ==
    [][ ( /\ last.op \in FlagOps
          /\ status = "running"
          /\ steps' = steps + 1
          /\ status' = "running" )
        => /\ (last'.op = "SetRegV" /\ last'.f = 15)
                => registers'.g[last'.r] = FlagByte(registers.vf)
           /\ (last'.op = "SkipEq" /\ last'.r = 15)
                => registers'.pc = registers.pc
                                   + (IF FlagByte(registers.vf) = last'.val THEN 4 ELSE 2) ]_vars

\* C8: for every digit k in 0..15 held in Vx, Fx29 sets the index register to
\* k * 5, the address at which Memory stores the first of glyph k's 5 bytes.
C8_FontAddress ==
    (Completed("SetRegLFontAddrFromReg") /\ prev.g[last.r] \in 0 .. 15) =>
        LET k == prev.g[last.r]
        IN /\ registers.sl = k * GLYPH_BYTES
           /\ \A i \in 0 .. (GLYPH_BYTES - 1) :
                 MemAt(Memory_new(memory.file), registers.sl + i)
                    = font_pack[k * GLYPH_BYTES + i + 1]

\* C9: a dump (Fx55) of V0..Vx at index L, L + x inside the address space,
\* followed after arbitrary overwriting of registers by a read (Fx65) with
\* the same L and x, restores the dumped values into V0..Vx (Vx included) and
\* changes no register above Vx.
C9_DumpThenRead ==
    ( /\ Completed("MemRead")
      /\ dumped.valid
      /\ Len(dumped.dump_vals) = last.r + 1
      /\ dumped.l = prev.sl
      /\ prev.sl + last.r < MEMORY_SIZE )
    => /\ \A i \in 0 .. last.r : registers.g[i] = dumped.dump_vals[i + 1]
       /\ \A j \in RegIndex : j > last.r => registers.g[j] = prev.g[j]

\* A read that brought back a nonzero dumped value into the endpoint register,
\* which had been overwritten since the dump.
C9_Witness ==
    /\ Completed("MemRead")
    /\ dumped.valid /\ Len(dumped.dump_vals) = last.r + 1 /\ dumped.l = prev.sl
    /\ dumped.dump_vals[last.r + 1] # 0
    /\ prev.g[last.r] # dumped.dump_vals[last.r + 1]
    /\ registers.g[last.r] = dumped.dump_vals[last.r + 1]

\* The CHIP-8 encoding table: the words that are some instruction.
DefinedEncoding(b0, b1) ==
    LET hi == b0 \div 16
        lo == b1 % 16
    IN CASE hi \in {0, 1, 2, 3, 4, 6, 7, 10, 11, 12, 13} -> TRUE
         [] hi \in {5, 9} -> lo = 0
         [] hi = 8  -> lo \in {0, 1, 2, 3, 4, 5, 6, 7, 14}
         [] hi = 14 -> b1 \in {158, 161}
         [] hi = 15 -> b1 \in {7, 10, 21, 24, 30, 41, 51, 85, 101}

\* The word a fetch at the program counter would read.
WordAtPc == <<MemAt(memory, registers.pc), MemAt(memory, registers.pc + 1)>>
UndefinedAtPc ==
    /\ registers.pc + 1 < MEMORY_SIZE
    /\ ~DefinedEncoding(WordAtPc[1], WordAtPc[2])

\* C10: when the word at PC matches no defined encoding, the frame that fetches
\* it halts the run loop without executing anything: registers, index register,
\* PC, call stack and both timers keep the values they had before the fetch.
C10_UnrecognizedHalts ==
    [][ ( /\ status = "running"
          /\ machine_state = Normal
          /\ UndefinedAtPc
          /\ steps' = steps + 1
          /\ status' # "exited" )
        => /\ status' = "halted"
           /\ registers' = registers
           /\ memory' = memory
           /\ screen' = screen ]_vars

\* The loop halted on a word with no encoding after earlier instructions had
\* changed the registers.
C10_Witness ==
    /\ status = "halted"
    /\ last = NoneInst
    /\ UndefinedAtPc
    /\ registers.g[0] = 255
    /\ registers.pc > INIT_PROGRAM_COUNTER_VAL

\* C11: for every 16-bit address a, instruction fetch at a never panics; it
\* returns (the decoding of) memory[a], memory[a+1] when a+1 is inside the
\* 4096-byte space and the out-of-range failure otherwise, 0xFFFF included.
C11_FetchTotal ==
    call.fn = "parse_instruction" =>
        /\ ~call.panic
        /\ status = "running"
        /\ call.out = IF call.addr + 1 < MEMORY_SIZE
                      THEN parse_instruction(MemAt(memory, call.addr), MemAt(memory, call.addr + 1))
                      ELSE NoneInst

\* C12: whenever a frame fetches at a PC that is odd or whose second byte is
\* outside the address space (e.g. after a jump to an odd address), the fetch
\* fails and the machine halts without executing the bytes found there; so
\* every instruction that is fetched and executed sits at an even in-range PC.
C12_FetchOnlyAtEvenPc ==
    [][ ( /\ status = "running"
          /\ steps' = steps + 1
          /\ status' # "exited"
          /\ (last' # NoInst \/ status' = "panicked")
          /\ (registers.pc % 2 = 1 \/ registers.pc + 1 >= MEMORY_SIZE) )
        => /\ status' = "halted"
           /\ last' = NoneInst
           /\ registers' = registers ]_vars

\* C13: a bulk read or write whose span [address, address + count) is not
\* entirely inside the 4096-byte space fails (asserts); a read never returns
\* fewer bytes than requested and a write never stores only part of the data.
C13_RangesWholeOrFail ==
    [][ steps' = steps + 1 =>
          LET outside == call'.addr + call'.count > MEMORY_SIZE
          IN /\ call'.fn = "get_data_bytes" =>
                    /\ outside => call'.panic
                    /\ ~call'.panic => Len(call'.out) = call'.count
             /\ call'.fn = "store_from" =>
                    /\ outside => (call'.panic /\ memory' = memory)
                    /\ ~call'.panic =>
                          \A i \in 1 .. call'.count :
                              MemAt(memory', call'.addr + i - 1) = call'.vals[i] ]_vars

\* C14: a return-from-subroutine (00EE) executed with an empty call stack is a
\* fatal failure: the instruction never completes and the machine does not
\* continue from any PC; the registers are left as they were.
C14_EmptyReturnIsFatal ==
    (last.op = "ReturnSubroutine" /\ prev.spst = << >>) =>
        /\ status = "panicked"
        /\ registers = prev

\* A return on an empty stack that came after a matched call and return.
C14_Witness ==
    /\ last.op = "ReturnSubroutine"
    /\ prev.spst = << >>
    /\ prev.pc # INIT_PROGRAM_COUNTER_VAL
    /\ status = "panicked"

\* C15: for every target register r in 0..15, VF included: the first frame
\* that observes a key k while the machine waits for a key into Vr stores k in
\* Vr and resumes fetching; the run-state leaves the wait in no other way, and
\* enters it only through the WaitKeyPress side effect of Fx0A.
C15_KeyWait ==
    [][ steps' = steps + 1 =>
          LET waiting == machine_state.kind = "WaitKeyPress"
              observed == frame'.key # << >>
          IN /\ (waiting /\ observed) =>
                    /\ prev'.g[machine_state.r] = frame'.key[1]
                    /\ last' # NoInst
             /\ (waiting /\ ~observed) => machine_state' = machine_state
             /\ (machine_state'.kind = "WaitKeyPress" /\ (~waiting \/ observed)) =>
                    /\ last' = Inst("WaitKeyPress", machine_state'.r, 0, 0, 0)
                    /\ frame'.events[Len(frame'.events) - 2] = "execute" ]_vars

\* How often step e occurs in a frame record's list of steps.
Count(events, e) == Cardinality({ i \in DOMAIN events : events[i] = e })

\* The iteration executed at most one instruction, then ticked the timers once
\* and reset the keypad once, and the registers and the keypad show it.
TickedAndResetOnce(fr, R, kp) ==
    /\ Count(fr.events, "execute") <= 1
    /\ Count(fr.events, "tick") = 1
    /\ Count(fr.events, "reset") = 1
    /\ \A i, j \in DOMAIN fr.events :
          (fr.events[i] = "execute" /\ fr.events[j] \in {"tick", "reset"}) => i < j
    /\ R.dt = IF fr.before.dt > 0 THEN fr.before.dt - 1 ELSE 0
    /\ R.st = IF fr.before.st > 0 THEN fr.before.st - 1 ELSE 0
    /\ \A k \in DOMAIN kp : ~kp[k]

\* C16 as stated: in every frame, with the run-state Normal or WaitingForKey,
\* the timers are ticked exactly once and the keypad is reset exactly once,
\* after the frame's instruction (if any); at most one instruction per frame.
C16_EveryFrameTicks ==
    [][ steps' = steps + 1 => TickedAndResetOnce(frame', registers', keypad') ]_vars

\* C16 amended: the same for every frame that the loop completes, i.e. that
\* does not leave it through the exit key, a failed fetch or a panic.
C16_CompletedFrameTicks ==
    [][ (steps' = steps + 1 /\ status' = "running")
        => TickedAndResetOnce(frame', registers', keypad') ]_vars

\* A frame spent waiting for a key, with no instruction executed, that ticked a
\* running delay timer.
C16_Witness ==
    /\ status = "running"
    /\ machine_state.kind = "WaitKeyPress"
    /\ frame.events = <<"tick", "reset">>
    /\ frame.before.dt > 1
    /\ registers.dt = frame.before.dt - 1

\* C17: a tick decrements each nonzero timer by exactly 1, leaves a zero timer
\* at 0 and beeps iff the sound timer was nonzero before it; so a timer written
\* with v and not written again is nonzero until its v-th tick (one per frame,
\* the writing frame included), 0 from then on.
C17_TimersCountDown ==
    Count(frame.events, "tick") = 1 =>
        /\ registers.dt = IF frame.before.dt > 0 THEN frame.before.dt - 1 ELSE 0
        /\ registers.st = IF frame.before.st > 0 THEN frame.before.st - 1 ELSE 0
        /\ frame.beep = (frame.before.st > 0)
        /\ registers.dt = IF frame.ticks.dt < frame.written.dt
                          THEN frame.written.dt - frame.ticks.dt ELSE 0
        /\ registers.st = IF frame.ticks.st < frame.written.st
                          THEN frame.written.st - frame.ticks.st ELSE 0

\* A sound timer written with 2 ran out at its second tick, and a further tick
\* left it at 0 without a beep.
C17_Witness ==
    /\ status = "running"
    /\ frame.written.st = 2
    /\ frame.ticks.st = 3
    /\ frame.before.st = 0
    /\ registers.st = 0
    /\ ~frame.beep

\* The CHIP-8 encoding table, with the names and operand fields of the
\* instructions the engine executes; NoneInst for a word of no encoding.
Encoding(b0, b1) ==
    LET hi  == b0 \div 16
        x   == b0 % 16
        y   == b1 \div 16
        n   == b1 % 16
        nnn == x * 256 + b1
    IN CASE hi = 0  -> ( IF b0 = 0 /\ b1 = 224 THEN Inst("ClearDisplay", 0, 0, 0, 0)
                         ELSE IF b0 = 0 /\ b1 = 238 THEN Inst("ReturnSubroutine", 0, 0, 0, 0)
                         ELSE Inst("Ignore", 0, 0, 0, 0) )
         [] hi = 1  -> Inst("JmpAddr", 0, 0, 0, nnn)
         [] hi = 2  -> Inst("CallSub", 0, 0, 0, nnn)
         [] hi = 3  -> Inst("SkipEq", x, 0, b1, 0)
         [] hi = 4  -> Inst("SkipNeq", x, 0, b1, 0)
         [] hi = 5  -> IF n = 0 THEN Inst("SkipRegEq", x, y, 0, 0) ELSE NoneInst
         [] hi = 6  -> Inst("SetByte", x, 0, b1, 0)
         [] hi = 7  -> Inst("AddByte", x, 0, b1, 0)
         [] hi = 8  -> ( CASE n = 0  -> Inst("SetRegV", x, y, 0, 0)
                           [] n = 1  -> Inst("OrRegV", x, y, 0, 0)
                           [] n = 2  -> Inst("AndRegV", x, y, 0, 0)
                           [] n = 3  -> Inst("XorRegV", x, y, 0, 0)
                           [] n = 4  -> Inst("AddRegV", x, y, 0, 0)
                           [] n = 5  -> Inst("SubRegV", x, y, 0, 0)
                           [] n = 6  -> Inst("ShrRegV", x, 0, 0, 0)
                           [] n = 7  -> Inst("SubNRegV", x, y, 0, 0)
                           [] n = 14 -> Inst("ShlRegV", x, 0, 0, 0)
                           [] OTHER  -> NoneInst )
         [] hi = 9  -> IF n = 0 THEN Inst("SkipRegNeq", x, y, 0, 0) ELSE NoneInst
         [] hi = 10 -> Inst("SetRegL", 0, 0, 0, nnn)
         [] hi = 11 -> Inst("JmpAddrOffReg0", 0, 0, 0, nnn)
         [] hi = 12 -> Inst("RndAnd", x, 0, b1, 0)
         [] hi = 13 -> Inst("DispSpr", x, y, n, 0)
         [] hi = 14 -> ( CASE b1 = 158 -> Inst("SkipKeyPressed", x, 0, 0, 0)
                           [] b1 = 161 -> Inst("SkipKeyReleased", x, 0, 0, 0)
                           [] OTHER    -> NoneInst )
         [] hi = 15 -> ( CASE b1 = 7   -> Inst("SetDelayToReg", x, 0, 0, 0)
                           [] b1 = 10  -> Inst("WaitKeyPress", x, 0, 0, 0)
                           [] b1 = 21  -> Inst("SetDelayFromReg", x, 0, 0, 0)
                           [] b1 = 24  -> Inst("SetSoundFromReg", x, 0, 0, 0)
                           [] b1 = 30  -> Inst("AddRegL", x, 0, 0, 0)
                           [] b1 = 41  -> Inst("SetRegLFontAddrFromReg", x, 0, 0, 0)
                           [] b1 = 85  -> Inst("MemDump", x, 0, 0, 0)
                           [] b1 = 101 -> Inst("MemRead", x, 0, 0, 0)
                           [] OTHER    -> NoneInst )

\* C18: decoding is total on the 16-bit words and agrees with the CHIP-8
\* encoding table: a word of a defined encoding decodes to that instruction
\* with its operand fields, 0x0nnn other than 00E0 / 00EE to Ignore, and every
\* other word to the explicit unrecognized result.  (Fx33, which the claim does
\* not list and the engine has no instruction for, is left open.)
C18_DecodeAgreesWithTable ==
    (call.fn = "isa::parse_instruction" /\ ~(call.vals[1] \div 16 = 15 /\ call.vals[2] = 51)) =>
        call.out = Encoding(call.vals[1], call.vals[2])

\* C19: constructing the memory from a file longer than 0xE00 bytes is
\* rejected or reported, never accepted with the excess silently dropped; for
\* every file length the bytes at [0, 80) are the built-in glyphs, the bytes
\* from 0x200 hold the file, and the rest is zero.
C19_LoadChecksLength ==
    steps = 0 =>
        /\ Len(memory.file) > FILE_SPACE => status # "running"
        /\ \A a \in 0 .. (MEMORY_SIZE - 1) :
              MemAt(memory, a) =
                  IF a < Len(font_pack) THEN font_pack[a + 1]
                  ELSE IF a >= PROGRAM_OFFSET /\ a - PROGRAM_OFFSET < Len(memory.file)
                       THEN memory.file[a - PROGRAM_OFFSET + 1]
                  ELSE 0

\* The pixels of glyph 0 (rows F, 9, 9, 9, F) drawn at (0, 0): row i, column c
\* is lit iff bit 3 - c of the row's nibble is set.
Glyph0Pixels ==
    LET rows == <<15, 9, 9, 9, 15>>
    IN { p \in (0 .. 3) \X (0 .. 4) : (rows[p[2] + 1] \div (2 ^ (3 - p[1]))) % 2 = 1 }

\* C20: from the initial state, setting the index register to the font address
\* of digit 0 and then drawing 5 rows at (0, 0) lights, in rows 0..4, exactly
\* the pixels of glyph 0 in columns 0..3 and no pixel in columns 4..7.
C20_DrawGlyph0 ==
    [][ ( /\ steps = 1
          /\ last.op = "SetRegLFontAddrFromReg"
          /\ prev.g[last.r] = 0
          /\ steps' = 2
          /\ last'.op = "DispSpr"
          /\ registers.g[last'.r] = 0
          /\ registers.g[last'.f] = 0 )
        => /\ status' = "running"
           /\ screen' = Glyph0Pixels ]_vars

C22_AddLiteralWraps ==
    last.op = "AddByte" =>
        /\ status = "running"
        /\ registers.g[last.r] = (prev.g[last.r] + last.val) % 256
        /\ \A r \in RegIndex \ {last.r} : registers.g[r] = prev.g[r]
        /\ registers.vf = prev.vf
        /\ registers.sl = prev.sl

\* C23: a skip-if-key-pressed or skip-if-key-released instruction makes
\* progress: by the end of the frame that executes it PC has advanced by 4 when
\* the skip condition on the queried key holds and by 2 otherwise, so the same
\* instruction is not executed again and again.
C23_SkipKeyAdvances ==
    [][ (steps' = steps + 1 /\ frame'.queried # << >>) =>
          LET down == frame'.queried[1]
              skip == IF last'.op = "SkipKeyPressed" THEN down ELSE ~down
          IN /\ status' = "running"
             /\ registers'.pc = registers.pc + (IF skip THEN 4 ELSE 2) ]_vars

\* C24: while the run-state is WaitingForKey(r) and no key is observed, a frame
\* leaves PC, the general registers, the flag, the index register, the call
\* stack, memory, the display and the run-state as they were; of the registers
\* only the two timers may change.
C24_SuspendedFrameKeepsState ==
    [][ ( /\ steps' = steps + 1
          /\ machine_state.kind = "WaitKeyPress"
          /\ frame'.key = << >> )
        => /\ registers' = [registers EXCEPT !.dt = registers'.dt, !.st = registers'.st]
           /\ memory' = memory
           /\ screen' = screen
           /\ machine_state' = machine_state
           /\ status' \in {"running", "exited"} ]_vars

\* A frame spent waiting, after a key had been stored and a sprite drawn:
\* nothing executed, the registers and the display as they were.
C24_Witness ==
    /\ status = "running"
    /\ machine_state.kind = "WaitKeyPress"
    /\ last = NoInst
    /\ frame.key = << >>
    /\ frame.events = <<"tick", "reset">>
    /\ registers.g[0] # 0
    /\ registers.pc > INIT_PROGRAM_COUNTER_VAL
    /\ screen # {}

====
